---- MODULE Spec2Model ----
(***************************************************************************)
(* Meal diary: the hybrid data-access module (lib/db, the facade over the  *)
(* IndexedDB store and the Supabase adapter), the directory mirror         *)
(* (lib/fileStorage) and the handlers that call them.                      *)
(*                                                                         *)
(* One facade call is in flight at a time (the pages await every call).    *)
(* A call is a sequence of steps, one per awaited platform operation, so   *)
(* that the states between the store write and the end of the mirror sync  *)
(* exist in the model; the environment (permission prompts, the user       *)
(* revoking access, platform faults) moves between the steps.              *)
(***************************************************************************)
EXTENDS Naturals, Integers, Sequences, FiniteSets, TLC

\* ------------------------------------------------------------------------
\* Values
\* ------------------------------------------------------------------------

\* JavaScript's undefined, for an optional string field that is absent.
Undef == "undefined"

\* `x || y` on strings: undefined and "" are falsy.
Falsy(x) == x \in {Undef, ""}

\* mealType values, transliterated: '朝食' '昼食' '夕食' '夜食' '間食'.
MealTypes == {"breakfast", "lunch", "dinner", "latenight", "snack"}

\* FoodEntry values the pages can hand to the facade.  photo names the bytes
\* of a Blob.  a1/a2 each come in two versions that differ in every field an
\* edit can change; createdAt is copied by the edit page.
A1v1 == [id |-> "a1", date |-> "2024-01-28", time |-> "12:30", mealType |-> "lunch",
         menu |-> "curry", photo |-> "p1", createdAt |-> 1000]
A1v2 == [id |-> "a1", date |-> "2024-01-27", time |-> Undef, mealType |-> "dinner",
         menu |-> Undef, photo |-> Undef, createdAt |-> 1000]
A2v1 == [id |-> "a2", date |-> "2024-01-28", time |-> Undef, mealType |-> "breakfast",
         menu |-> "toast", photo |-> Undef, createdAt |-> 2000]
A2v2 == [id |-> "a2", date |-> "2024-01-27", time |-> "18:45", mealType |-> "snack",
         menu |-> Undef, photo |-> "p2", createdAt |-> 2000]
\* An entry parsed from a file whose record has no id (importFromFile only
\* checks that `entries` is an array): rest.id is undefined.
NoIdEntry == [id |-> Undef, date |-> "2024-01-27", time |-> Undef, mealType |-> "lunch",
              menu |-> "soup", photo |-> Undef, createdAt |-> 500]

EntryPool == {A1v1, A1v2, A2v1, A2v2}
Ids == {e.id : e \in EntryPool}

\* Code-unit order of the strings that occur, as ranks.
IdRank(id) == CASE id = "a1" -> 1 [] id = "a2" -> 2 [] OTHER -> 0
DateRank(d) == CASE d = "2024-01-27" -> 1 [] d = "2024-01-28" -> 2 [] OTHER -> 0
TimeRank(t) == CASE t = "00:00" -> 0 [] t = "12:30" -> 1 [] t = "18:45" -> 2 [] OTHER -> 0

\* ------------------------------------------------------------------------
\* Local Store (IndexedDB object store 'entries', keyPath 'id', index by-date)
\* ------------------------------------------------------------------------

\* The store is the set of its records; keyPath 'id' makes ids unique.
HasKey(s, id) == \E e \in s : e.id = id

\* A value is storable when its key path yields a valid key.
ValidKey(e) == e.id # Undef

\* IDBObjectStore.put: insert or replace the record with the same key.
StorePut(s, e) == {x \in s : x.id # e.id} \cup {e}

\* IDBObjectStore.delete: removing an absent key succeeds and changes nothing.
StoreDelete(s, id) == {x \in s : x.id # id}

\* IDBObjectStore.get: the record, or undefined.
StoreGet(s, id) == {x \in s : x.id = id}

\* Index order of by-date: by date, then by primary key.
IndexLess(a, b) ==
  \/ DateRank(a.date) < DateRank(b.date)
  \/ DateRank(a.date) = DateRank(b.date) /\ IdRank(a.id) < IdRank(b.id)

RECURSIVE getAllFromIndex(_)
getAllFromIndex(s) ==
  IF s = {} THEN <<>>
  ELSE LET m == CHOOSE x \in s : \A y \in s \ {x} : IndexLess(x, y)
       IN <<m>> \o getAllFromIndex(s \ {m})

\* `${e.date}T${e.time || '00:00'}`
dateTime(e) == <<e.date, IF Falsy(e.time) THEN "00:00" ELSE e.time>>

\* x.localeCompare(y) on two such strings: -1, 0 or 1.
localeCompare(x, y) ==
  IF DateRank(x[1]) # DateRank(y[1])
  THEN (IF DateRank(x[1]) < DateRank(y[1]) THEN -1 ELSE 1)
  ELSE IF TimeRank(x[2]) # TimeRank(y[2])
       THEN (IF TimeRank(x[2]) < TimeRank(y[2]) THEN -1 ELSE 1)
       ELSE 0

\* The comparator of getAllEntriesInternal: dateTimeB.localeCompare(dateTimeA).
compareEntries(a, b) == localeCompare(dateTime(b), dateTime(a))

\* Array.prototype.sort with that comparator (stable): x goes after every
\* element that does not sort after it.
InsertSorted(s, x) ==
  LET k == Cardinality({i \in 1..Len(s) : compareEntries(s[i], x) <= 0})
  IN SubSeq(s, 1, k) \o <<x>> \o SubSeq(s, k + 1, Len(s))

RECURSIVE ArraySort(_)
ArraySort(s) ==
  IF s = <<>> THEN <<>>
  ELSE InsertSorted(ArraySort(SubSeq(s, 1, Len(s) - 1)), s[Len(s)])

\* getAllEntriesInternal of the hybrid module.
getAllEntriesInternal(s) == ArraySort(getAllFromIndex(s))

\* Array.prototype.reverse
Reverse(s) == [i \in 1..Len(s) |-> s[Len(s) + 1 - i]]

\* getAllEntries of lib/db.ts: the index order, reversed.
dbGetAllEntries(s) == Reverse(getAllFromIndex(s))

Range(s) == {s[i] : i \in 1..Len(s)}

\* ------------------------------------------------------------------------
\* Serialized entries and the mirror file (lib/fileStorage)
\* ------------------------------------------------------------------------

\* FileReader.readAsDataURL of a Blob: a base64 data URI of its bytes.
readAsDataURL(p) ==
  CASE p = "p1" -> "data:image/jpeg;base64,p1"
    [] p = "p2" -> "data:image/jpeg;base64,p2"
    [] OTHER -> Undef

\* fetch(dataURI).blob(): the bytes the URI encodes.
fetchBlob(u) ==
  CASE u = "data:image/jpeg;base64,p1" -> "p1"
    [] u = "data:image/jpeg;base64,p2" -> "p2"
    [] OTHER -> Undef

\* A variant of entryToSerializable that leaves out the _photoIsBase64 tag.
entryToSerializableUntagged(e) ==
  [id |-> e.id, date |-> e.date, time |-> e.time, mealType |-> e.mealType,
   menu |-> e.menu, menuName |-> Undef,
   photo |-> IF e.photo # Undef THEN readAsDataURL(e.photo) ELSE Undef,
   photoIsBase64 |-> FALSE,
   createdAt |-> e.createdAt]

\* entryToSerializable, then JSON.stringify / JSON.parse: a field that is
\* undefined is dropped and reads back as undefined.  menuName is the field
\* of the older file schema; the current writer never sets it.
entryToSerializable(e) ==
  [id |-> e.id, date |-> e.date, time |-> e.time, mealType |-> e.mealType,
   menu |-> e.menu, menuName |-> Undef,
   photo |-> IF e.photo # Undef THEN readAsDataURL(e.photo) ELSE Undef,
   photoIsBase64 |-> e.photo # Undef,
   createdAt |-> e.createdAt]

\* A variant of serializableToEntry without the fallbacks for the old format.
serializableToEntryCurrent(d) ==
  [id |-> d.id, date |-> d.date, time |-> d.time,
   mealType |-> d.mealType,
   menu |-> d.menu,
   photo |-> IF d.photoIsBase64 /\ d.photo # Undef THEN fetchBlob(d.photo) ELSE d.photo,
   createdAt |-> d.createdAt]

\* serializableToEntry: _photoIsBase64 is taken off, mealType defaults to
\* '昼食', menu falls back to menuName, a tagged photo string is fetched.
serializableToEntry(d) ==
  [id |-> d.id, date |-> d.date, time |-> d.time,
   mealType |-> IF Falsy(d.mealType) THEN "lunch" ELSE d.mealType,
   menu |-> IF Falsy(d.menu) THEN d.menuName ELSE d.menu,
   photo |-> IF d.photoIsBase64 /\ d.photo # Undef THEN fetchBlob(d.photo) ELSE d.photo,
   createdAt |-> d.createdAt]

\* The mirror file foodiary-data.json in the granted directory: absent, empty
\* (created by getFileHandle({create: true}) and never written), or the JSON
\* document whose `entries` array is given.
NoFile == [state |-> "absent", entries |-> <<>>]
EmptyFile == [state |-> "empty", entries |-> <<>>]
JsonFile(entries) == [state |-> "json", entries |-> entries]

\* What saveToFile writes for a list of entries (lines 217-229).
MirrorDocument(entries) ==
  JsonFile([i \in 1..Len(entries) |-> entryToSerializable(entries[i])])

\* The entries a mirror document holds, deserialized.
FileEntries(f) == {serializableToEntry(f.entries[i]) : i \in 1..Len(f.entries)}

\* verifyPermission: queryPermission, then requestPermission when the query
\* is not 'granted'.  answer is what requestPermission does when it is
\* called: "granted", "denied" or "throw" (no user activation).
verifyPermission(permission, answer) ==
  IF permission = "granted" THEN [ok |-> "true", permission |-> "granted"]
  ELSE IF answer = "granted" THEN [ok |-> "true", permission |-> "granted"]
  ELSE IF answer = "denied" THEN [ok |-> "false", permission |-> permission]
  ELSE [ok |-> "throw", permission |-> permission]

\* A variant of getDirectoryHandle that hands out the stored handle without
\* verifying the permission again.
getDirectoryHandleCached(stored, permission, answer) ==
  [handle |-> IF stored THEN "handle" ELSE "null", permission |-> permission]

\* getDirectoryHandle: the stored handle when permission is verified, else
\* null; an exception of requestPermission propagates.
getDirectoryHandle(stored, permission, answer) ==
  IF ~stored THEN [handle |-> "null", permission |-> permission]
  ELSE LET v == verifyPermission(permission, answer)
       IN [handle |-> CASE v.ok = "true" -> "handle"
                        [] v.ok = "false" -> "null"
                        [] OTHER -> "throw",
           permission |-> v.permission]

Answers == {"granted", "denied", "throw"}

\* ------------------------------------------------------------------------
\* Remote Store Adapter values (Supabase table food_entries, bucket food-photos)
\* ------------------------------------------------------------------------

\* photo_url null.  A storage path `${userId}/${entryId}.jpg` is the pair
\* <<userId, entryId>>.
NullPath == <<>>
PhotoPath(userId, entryId) == <<userId, entryId>>

\* SQL null of a text column.
Null == "null"

toSupabaseEntry(entry, userId, photoUrl) ==
  [id |-> entry.id, user_id |-> userId, date |-> entry.date,
   time |-> IF Falsy(entry.time) THEN Null ELSE entry.time,
   meal_type |-> entry.mealType,
   menu |-> IF Falsy(entry.menu) THEN Null ELSE entry.menu,
   photo_url |-> photoUrl, created_at |-> entry.createdAt]

\* fromSupabaseEntry; photo is the Blob fetched through the signed URL, or
\* undefined when there is no reference or the fetch failed.
fromSupabaseEntry(row, photo) ==
  [id |-> row.id, date |-> row.date,
   time |-> IF row.time \in {Null, ""} THEN Undef ELSE row.time,
   mealType |-> row.meal_type,
   menu |-> IF row.menu \in {Null, ""} THEN Undef ELSE row.menu,
   photo |-> photo, createdAt |-> row.created_at]

\* ------------------------------------------------------------------------
\* Facade routing (DbOptions)
\* ------------------------------------------------------------------------

\* options?: DbOptions.  given = FALSE is a call without the argument;
\* isAuthenticated is "true", "false" or undefined.
NoOptions == [given |-> FALSE, userId |-> Undef, isAuthenticated |-> Undef]
Options(userId, isAuthenticated) ==
  [given |-> TRUE, userId |-> userId, isAuthenticated |-> isAuthenticated]

OptionValues ==
  {NoOptions, Options("u1", "true"), Options("u2", "true"), Options("u1", "false"),
   Options("u1", Undef), Options("", "true"), Options(Undef, "true")}

\* A variant of shouldUseSupabase that trusts the flag alone.
shouldUseSupabaseFlagOnly(options) ==
  options.given /\ options.isAuthenticated = "true"

\* !!(options?.userId && options?.isAuthenticated)
shouldUseSupabase(options) ==
  options.given /\ ~Falsy(options.userId) /\ options.isAuthenticated = "true"

\* PlanType, and the value of the auth context: `user` is null without a
\* session; `plan` is profile?.plan || 'free'.
PlanTypes == {"free", "member", "premium"}
NoSession == [user |-> Undef, plan |-> "free"]

\* ------------------------------------------------------------------------
\* State
\* ------------------------------------------------------------------------

VARIABLES
  store,        \* Local Store: the committed records of 'entries'
  file,         \* the mirror file in the granted directory
  handleStored, \* a directory handle is saved in FileHandleStore
  permission,   \* what handle.queryPermission({mode: 'readwrite'}) answers
  rows,         \* remote table food_entries
  blobs,        \* remote bucket food-photos: [path, bytes]
  configured,   \* createClient() returns a client (both env variables set)
  auth,         \* what useAuth() gives the pages: the signed-in user and the plan
  bucketReliable, \* every call of the bucket (upload, remove) succeeds in this run
  pc,           \* where the facade call in flight stands
  call,         \* the facade call: operation, arguments, backend it used
  result,       \* the promise the facade call returned
  sync,         \* syncToFile runs of this call and how the last one ended
  snap,         \* the entries syncToFile read for saveToFile
  txn           \* importEntries' transaction: next index, writes not yet committed

vars == <<store, file, handleStored, permission, rows, blobs, configured, auth,
          bucketReliable,
          pc, call, result, sync, snap, txn>>

localVars == <<store, file, handleStored, permission, snap, txn, sync>>
envVars == <<configured, auth, bucketReliable>>
remoteVars == <<rows, blobs, envVars>>

NoCall == [op |-> "none", entries |-> <<>>, id |-> Undef, options |-> NoOptions,
           used |-> "none"]
NoResult == [state |-> "none", error |-> "", value |-> <<>>]
NoSync == [runs |-> 0, outcome |-> "none"]
NoTxn == [next |-> 0, puts |-> <<>>]

Pending == [state |-> "pending", error |-> "", value |-> <<>>]
Fulfilled(value) == [state |-> "fulfilled", error |-> "", value |-> value]
Rejected(error) == [state |-> "rejected", error |-> error, value |-> <<>>]

Init ==
  /\ store = {}
  /\ file = NoFile
  /\ handleStored = FALSE
  /\ permission = "prompt"
  /\ rows = {}
  /\ blobs = {}
  /\ configured \in BOOLEAN
  /\ auth = NoSession
  /\ bucketReliable = FALSE
  /\ pc = "idle"
  /\ call = NoCall
  /\ result = NoResult
  /\ sync = NoSync
  /\ snap = <<>>
  /\ txn = NoTxn

\* A page starts a facade call when none is in flight.
CanInvoke == pc = "idle"

TheCall(op, entries, id, options, used) ==
  [op |-> op, entries |-> entries, id |-> id, options |-> options, used |-> used]

\* ------------------------------------------------------------------------
\* Local Store writes as the facade issues them
\* ------------------------------------------------------------------------

\* A variant of db.add that overwrites (what db.put does).
StoreAddUpsert(s, e) == [error |-> "", store |-> StorePut(s, e)]

\* db.add(STORE_NAME, entry): ConstraintError when the key exists.
StoreAdd(s, e) ==
  IF HasKey(s, e.id) THEN [error |-> "ConstraintError", store |-> s]
  ELSE [error |-> "", store |-> s \cup {e}]

\* A variant of db.put that patches: a field the new value leaves undefined
\* keeps the stored value.
StoreUpdatePatch(s, e) ==
  LET old == StoreGet(s, e.id)
  IN IF old = {} THEN StorePut(s, e)
     ELSE LET o == CHOOSE x \in old : TRUE
          IN StorePut(s, [e EXCEPT !.photo = IF e.photo = Undef THEN o.photo ELSE e.photo,
                                   !.menu = IF e.menu = Undef THEN o.menu ELSE e.menu,
                                   !.time = IF e.time = Undef THEN o.time ELSE e.time])

\* db.put(STORE_NAME, entry) of updateEntry: full replacement.
StoreUpdate(s, e) == StorePut(s, e)

\* A variant of db.delete with the key test inverted.
StoreRemoveOthers(s, id) == {x \in s : x.id = id}

\* db.delete(STORE_NAME, id) of deleteEntry.
StoreRemove(s, id) == StoreDelete(s, id)

\* db.get(STORE_NAME, id) of getEntry: the entry, or undefined (<<>>).
getEntryLocal(s, id) ==
  IF HasKey(s, id) THEN <<CHOOSE x \in s : x.id = id>> ELSE <<>>

\* A variant that starts syncToFile without awaiting it.
DetachedSyncToFile == Fulfilled(<<>>)

\* `await syncToFile()` as the last statement of addEntry, deleteEntry,
\* updateEntry and importEntries: the facade promise stays pending while
\* syncToFile runs.
AwaitSyncToFile == Pending

\* A variant of syncToFile without its try/catch.
syncToFileRethrows(r, outcome) ==
  IF r.state # "pending" THEN r
  ELSE IF outcome \in {"threw", "readError"} THEN Rejected("SyncError")
  ELSE Fulfilled(<<>>)

\* syncToFile returns normally however it ended (try/catch, lines 69-78);
\* the awaiting facade call then resolves.
syncToFileSettles(r, outcome) ==
  IF r.state = "pending" THEN Fulfilled(<<>>) ELSE r

\* ------------------------------------------------------------------------
\* Directory mirror steps (syncToFile, saveToFile)
\* ------------------------------------------------------------------------

Begin(op, entries, id, options, used) ==
  /\ call' = TheCall(op, entries, id, options, used)
  /\ sync' = NoSync
  /\ snap' = <<>>
  /\ txn' = NoTxn

\* syncToFile ends: the facade call that awaits it settles.
EndSync(outcome) ==
  /\ pc' = "done"
  /\ sync' = [sync EXCEPT !.outcome = outcome]
  /\ result' = syncToFileSettles(result, outcome)

\* What a failed saveToFile leaves in the directory: getFileHandle with
\* create: true has made the file when the failure came after it; the
\* content of an existing file is replaced only by writable.close().
FileAfterFailedSave(f, created) ==
  IF created /\ f.state = "absent" THEN EmptyFile ELSE f

\* A variant of saveToFile that keeps the entries already in the file.
saveToFileAppend(f, entries) == JsonFile(f.entries \o MirrorDocument(entries).entries)

\* saveToFile, lines 212-229 succeeding: the file holds the new document.
saveToFileWrites(f, entries) == MirrorDocument(entries)

\* syncToFile line 70: getDirectoryHandle().
SyncGetHandle ==
  /\ pc = "syncToFile"
  /\ \E answer \in Answers :
       LET h == getDirectoryHandle(handleStored, permission, answer)
       IN /\ permission' = h.permission
          /\ IF h.handle = "handle"
             THEN /\ pc' = "syncRead"
                  /\ sync' = [runs |-> sync.runs + 1, outcome |-> "running"]
                  /\ UNCHANGED result
             ELSE /\ pc' = "done"
                  /\ sync' = [runs |-> sync.runs + 1,
                              outcome |-> IF h.handle = "null" THEN "noHandle" ELSE "threw"]
                  /\ result' = syncToFileSettles(result,
                                 IF h.handle = "null" THEN "noHandle" ELSE "threw")
  /\ UNCHANGED <<store, file, handleStored, snap, txn, call, remoteVars>>

\* syncToFile line 73: getAllEntriesInternal(), which may fail.
SyncRead ==
  /\ pc = "syncRead"
  /\ \/ /\ snap' = getAllEntriesInternal(store)
        /\ pc' = "saveToFile"
        /\ UNCHANGED <<result, sync>>
     \/ /\ EndSync("readError")
        /\ UNCHANGED snap
  /\ UNCHANGED <<store, file, handleStored, permission, txn, call, remoteVars>>

\* saveToFile line 205: getDirectoryHandle() again.
SaveGetHandle ==
  /\ pc = "saveToFile"
  /\ \E answer \in Answers :
       LET h == getDirectoryHandle(handleStored, permission, answer)
       IN /\ permission' = h.permission
          /\ IF h.handle = "handle"
             THEN pc' = "saveWrite" /\ UNCHANGED <<result, sync>>
             ELSE EndSync(IF h.handle = "null" THEN "noHandle" ELSE "threw")
  /\ UNCHANGED <<store, file, handleStored, snap, txn, call, remoteVars>>

\* saveToFile lines 210-235: create the file, serialize, write, close; any
\* failure is caught and reported as false.  The directory refuses
\* getFileHandle and createWritable (NotAllowedError) when the permission is
\* no longer granted at that moment.
SaveWrite ==
  /\ pc = "saveWrite"
  /\ \/ /\ permission = "granted"
        /\ file' = saveToFileWrites(file, snap)
        /\ EndSync("written")
     \/ \E created \in BOOLEAN :
          /\ created => permission = "granted"
          /\ file' = FileAfterFailedSave(file, created)
          /\ EndSync("writeError")
  /\ UNCHANGED <<store, handleStored, permission, snap, txn, call, remoteVars>>

\* ------------------------------------------------------------------------
\* Remote Store Adapter (each handler as one step; its platform calls may fail)
\* ------------------------------------------------------------------------

\* A variant of createClient that returns a client without the test.
createClientUnchecked(cfg) == "client"

\* createClient: null unless both environment variables are set.
createClient(cfg) == IF cfg THEN "client" ELSE Null

BlobAt(b, path) == {x \in b : x.path = path}

\* Whether a call of the bucket succeeds: uploadPhoto returning a path or
\* null, deletePhoto returning true or false.
StorageAnswers == IF bucketReliable THEN {TRUE} ELSE BOOLEAN

\* storage.upload(filePath, photo, {upsert: true})
BlobUpsert(b, path, bytes) == {x \in b : x.path # path} \cup {[path |-> path, bytes |-> bytes]}

\* storage.remove([filePath])
BlobRemove(b, path) == {x \in b : x.path # path}

\* A variant of the row filter without .eq('user_id', userId).
RowsOfAnyUser(r, id, userId) == {x \in r : x.id = id}

\* The rows .eq('id', id).eq('user_id', userId) selects.
RowsOf(r, id, userId) == {x \in r : x.id = id /\ x.user_id = userId}

\* What getPhotoUrl and fetch can do for one photo: the signed URL is served
\* ("ok"), createSignedUrl answers an error ("signError"), fetch throws
\* ("networkError"), or fetch resolves with an error status ("httpError").
FetchOutcomes == {"ok", "signError", "networkError", "httpError"}

\* The body of an HTTP error response, as response.blob() returns it.
ErrorBody == "errorBody"

\* The photo of fromSupabaseEntry (lines 257-271): undefined when there is no
\* reference, when getPhotoUrl returns null, or when fetch throws (caught);
\* otherwise response.blob(), whatever the status of the response (the
\* code does not test response.ok).  A missing object has no signed URL.
FetchPhoto(b, path, outcome) ==
  IF path = NullPath \/ outcome \in {"signError", "networkError"} THEN Undef
  ELSE IF outcome = "httpError" THEN ErrorBody
  ELSE IF BlobAt(b, path) # {} THEN (CHOOSE x \in BlobAt(b, path) : TRUE).bytes
  ELSE Undef

\* .order('date', desc).order('time', desc, nulls last)
RemoteBefore(x, y) ==
  \/ DateRank(x.date) > DateRank(y.date)
  \/ /\ x.date = y.date
     /\ \/ x.time # Null /\ y.time = Null
        \/ x.time # Null /\ y.time # Null /\ TimeRank(x.time) >= TimeRank(y.time)
        \/ x.time = Null /\ y.time = Null

RemoteListings(S) ==
  {s \in [1..Cardinality(S) -> S] :
     /\ Range(s) = S
     /\ \A i, j \in 1..Cardinality(S) : i < j => RemoteBefore(s[i], s[j])}

\* select('photo_url')...single() before an update or a delete: the
\* photo_url of the caller's row; data is null, and the reference unknown,
\* when no row matches or the request fails (the error is not read).
SelectPhotoUrl(found, selOk) ==
  IF selOk /\ found # {} THEN (CHOOSE x \in found : TRUE).photo_url ELSE NullPath

RemoteDone(op, entries, id, options, res) ==
  /\ Begin(op, entries, id, options, "remote")
  /\ pc' = "done"
  /\ result' = res
  /\ UNCHANGED <<store, file, handleStored, permission>>

addEntryToSupabase(entry, options) ==
  LET userId == options.userId
      path == PhotoPath(userId, entry.id)
  IN IF createClient(configured) = Null
     THEN /\ RemoteDone("addEntry", <<entry>>, entry.id, options, Rejected("NotConfigured"))
          /\ UNCHANGED remoteVars
     ELSE \E upOk \in StorageAnswers, insOk \in BOOLEAN, delOk \in StorageAnswers :
            LET uploaded == entry.photo # Undef /\ upOk
                photoUrl == IF uploaded THEN path ELSE NullPath
                blobs1 == IF uploaded THEN BlobUpsert(blobs, path, entry.photo) ELSE blobs
                insertError == ~insOk \/ (\E r \in rows : r.id = entry.id)
            IN /\ UNCHANGED envVars
               /\ IF insertError
                  THEN /\ rows' = rows
                       /\ blobs' = IF uploaded /\ delOk THEN BlobRemove(blobs1, path) ELSE blobs1
                       /\ RemoteDone("addEntry", <<entry>>, entry.id, options,
                                     Rejected("BackendError"))
                  ELSE /\ rows' = rows \cup {toSupabaseEntry(entry, userId, photoUrl)}
                       /\ blobs' = blobs1
                       /\ RemoteDone("addEntry", <<entry>>, entry.id, options, Fulfilled(<<>>))

getAllEntriesFromSupabase(options) ==
  LET userId == options.userId
      mine == {r \in rows : r.user_id = userId}
  IN /\ UNCHANGED remoteVars
     /\ IF createClient(configured) = Null
        THEN RemoteDone("getAllEntries", <<>>, Undef, options, Fulfilled(<<>>))
        ELSE \E queryOk \in BOOLEAN :
               IF ~queryOk
               THEN RemoteDone("getAllEntries", <<>>, Undef, options, Fulfilled(<<>>))
               ELSE \E listing \in RemoteListings(mine), outcome \in FetchOutcomes :
                      RemoteDone("getAllEntries", <<>>, Undef, options,
                        Fulfilled([i \in 1..Len(listing) |->
                          fromSupabaseEntry(listing[i],
                            FetchPhoto(blobs, listing[i].photo_url, outcome))]))

getEntryFromSupabase(id, options) ==
  LET found == RowsOf(rows, id, options.userId)
  IN /\ UNCHANGED remoteVars
     /\ IF createClient(configured) = Null \/ found = {}
        THEN RemoteDone("getEntry", <<>>, id, options, Fulfilled(<<>>))
        ELSE \E queryOk \in BOOLEAN, outcome \in FetchOutcomes :
               LET row == CHOOSE x \in found : TRUE
               IN RemoteDone("getEntry", <<>>, id, options,
                    IF queryOk
                    THEN Fulfilled(<<fromSupabaseEntry(row,
                                       FetchPhoto(blobs, row.photo_url, outcome))>>)
                    ELSE Fulfilled(<<>>))

updateEntryInSupabase(entry, options) ==
  LET userId == options.userId
      path == PhotoPath(userId, entry.id)
      found == RowsOf(rows, entry.id, userId)
  IN IF createClient(configured) = Null
     THEN /\ RemoteDone("updateEntry", <<entry>>, entry.id, options, Rejected("NotConfigured"))
          /\ UNCHANGED remoteVars
     ELSE \E selOk, updOk \in BOOLEAN, upOk, delOk \in StorageAnswers :
            LET existing == SelectPhotoUrl(found, selOk)
                uploaded == entry.photo # Undef /\ upOk
                photoUrl == IF entry.photo # Undef
                            THEN (IF upOk THEN path ELSE NullPath)
                            ELSE NullPath
                blobs1 == IF uploaded THEN BlobUpsert(blobs, path, entry.photo)
                          ELSE IF entry.photo = Undef /\ existing # NullPath /\ delOk
                               THEN BlobRemove(blobs, existing)
                               ELSE blobs
            IN /\ UNCHANGED envVars
               /\ blobs' = blobs1
               /\ IF updOk
                  THEN /\ rows' = (rows \ found) \cup
                                  {toSupabaseEntry(entry, userId, photoUrl) : x \in found}
                       /\ RemoteDone("updateEntry", <<entry>>, entry.id, options,
                                     Fulfilled(<<>>))
                  ELSE /\ rows' = rows
                       /\ RemoteDone("updateEntry", <<entry>>, entry.id, options,
                                     Rejected("BackendError"))

deleteEntryFromSupabase(id, options) ==
  LET userId == options.userId
      found == RowsOf(rows, id, userId)
  IN IF createClient(configured) = Null
     THEN /\ RemoteDone("deleteEntry", <<>>, id, options, Rejected("NotConfigured"))
          /\ UNCHANGED remoteVars
     ELSE \E selOk, delOk \in BOOLEAN, rmOk \in StorageAnswers :
            /\ UNCHANGED envVars
            /\ LET existing == SelectPhotoUrl(found, selOk)
               IN blobs' = IF existing # NullPath /\ rmOk THEN BlobRemove(blobs, existing)
                           ELSE blobs
            /\ IF delOk
               THEN /\ rows' = rows \ found
                    /\ RemoteDone("deleteEntry", <<>>, id, options, Fulfilled(<<>>))
               ELSE /\ rows' = rows
                    /\ RemoteDone("deleteEntry", <<>>, id, options, Rejected("BackendError"))

\* ------------------------------------------------------------------------
\* Unified Access Facade (the hybrid lib/db module)
\* ------------------------------------------------------------------------

\* Longest batch importEntries is given.
MaxBatch == 2

\* Entries an import file can yield.
ImportPool == {A1v2, A2v2, NoIdEntry}

Batches ==
  {b \in UNION {[1..n -> ImportPool] : n \in 0..MaxBatch} :
     \A i, j \in 1..Len(b) : i # j => b[i] # b[j]}

\* Entry ids the remote path is exercised with.
RemoteIds == {"a1"}

\* The options a call of the facade is given: for the ids of RemoteIds any
\* at all, for the others those without an authenticated user.
CallOptions(entryId) ==
  {o \in OptionValues : o \in {NoOptions, Options("u1", "false")} \/ entryId \in RemoteIds}

\* A variant in which the local read branches also run syncToFile.
AfterLocalReadSyncs == "syncToFile"

\* The local branches of getAllEntries and getEntry return what they read;
\* they have no syncToFile call.
AfterLocalRead == "done"

LocalDone(op, entries, id, options, res) ==
  /\ Begin(op, entries, id, options, "local")
  /\ pc' = IF op \in {"getAllEntries", "getEntry"} THEN AfterLocalRead ELSE "done"
  /\ result' = res
  /\ UNCHANGED <<file, handleStored, permission, remoteVars>>

\* The local branch went through its store write: `await syncToFile()`.
LocalThenSync(op, entries, id, options) ==
  /\ Begin(op, entries, id, options, "local")
  /\ pc' = "syncToFile"
  /\ result' = AwaitSyncToFile
  /\ UNCHANGED <<file, handleStored, permission, remoteVars>>

addEntry(entry, options) ==
  /\ CanInvoke
  /\ IF shouldUseSupabase(options)
     THEN addEntryToSupabase(entry, options)
     ELSE LET r == StoreAdd(store, entry)
          IN /\ store' = r.store
             /\ IF r.error # ""
                THEN LocalDone("addEntry", <<entry>>, entry.id, options, Rejected(r.error))
                ELSE LocalThenSync("addEntry", <<entry>>, entry.id, options)

getAllEntries(options) ==
  /\ CanInvoke
  /\ IF shouldUseSupabase(options)
     THEN getAllEntriesFromSupabase(options)
     ELSE /\ UNCHANGED store
          /\ LocalDone("getAllEntries", <<>>, Undef, options,
                       Fulfilled(getAllEntriesInternal(store)))

getEntry(id, options) ==
  /\ CanInvoke
  /\ IF shouldUseSupabase(options)
     THEN getEntryFromSupabase(id, options)
     ELSE /\ UNCHANGED store
          /\ LocalDone("getEntry", <<>>, id, options, Fulfilled(getEntryLocal(store, id)))

deleteEntry(id, options) ==
  /\ CanInvoke
  /\ IF shouldUseSupabase(options)
     THEN deleteEntryFromSupabase(id, options)
     ELSE /\ store' = StoreRemove(store, id)
          /\ LocalThenSync("deleteEntry", <<>>, id, options)

updateEntry(entry, options) ==
  /\ CanInvoke
  /\ IF shouldUseSupabase(options)
     THEN updateEntryInSupabase(entry, options)
     ELSE /\ store' = StoreUpdate(store, entry)
          /\ LocalThenSync("updateEntry", <<entry>>, entry.id, options)

\* importEntries lines 192-194: open the readwrite transaction.
importEntries(entries) ==
  /\ CanInvoke
  /\ call' = TheCall("importEntries", entries, Undef, NoOptions, "local")
  /\ sync' = NoSync
  /\ snap' = <<>>
  /\ txn' = [next |-> 1, puts |-> <<>>]
  /\ pc' = "tx"
  /\ result' = Pending
  /\ UNCHANGED <<store, file, handleStored, permission, remoteVars>>

RECURSIVE ApplyPuts(_, _)
ApplyPuts(s, puts) ==
  IF puts = <<>> THEN s ELSE ApplyPuts(StorePut(s, Head(puts)), Tail(puts))

\* The transaction after store.put threw (DataError: the value has no key):
\* importEntries has no try/catch and never calls tx.abort(), so the
\* transaction commits the requests already made once it goes inactive.
TxAfterThrow(s, puts) == ApplyPuts(s, puts)

\* importEntries lines 197-199: `await tx.store.put(entry)` for the next entry.
TxPut ==
  /\ pc = "tx"
  /\ txn.next <= Len(call.entries)
  /\ LET e == call.entries[txn.next]
     IN IF ~ValidKey(e)
        THEN /\ store' = TxAfterThrow(store, txn.puts)
             /\ txn' = NoTxn
             /\ pc' = "done"
             /\ result' = Rejected("DataError")
        ELSE \/ /\ txn' = [next |-> txn.next + 1, puts |-> Append(txn.puts, e)]
                /\ UNCHANGED <<store, pc, result>>
             \/ /\ txn' = NoTxn
                /\ pc' = "done"
                /\ result' = Rejected("AbortError")
                /\ UNCHANGED store
  /\ UNCHANGED <<file, handleStored, permission, snap, sync, call, remoteVars>>

\* importEntries line 202: `await tx.done`, the commit; then line 204.
TxDone ==
  /\ pc = "tx"
  /\ txn.next > Len(call.entries)
  /\ \/ /\ store' = ApplyPuts(store, txn.puts)
        /\ pc' = "syncToFile"
        /\ result' = AwaitSyncToFile
     \/ /\ pc' = "done"
        /\ result' = Rejected("AbortError")
        /\ UNCHANGED store
  /\ txn' = NoTxn
  /\ UNCHANGED <<file, handleStored, permission, snap, sync, call, remoteVars>>

clearAllEntries ==
  /\ CanInvoke
  /\ store' = {}
  /\ LocalDone("clearAllEntries", <<>>, Undef, NoOptions, Fulfilled(<<>>))

\* getAllEntries of lib/db.ts, the module without routing.
db_getAllEntries ==
  /\ CanInvoke
  /\ UNCHANGED store
  /\ LocalDone("db.getAllEntries", <<>>, Undef, NoOptions, Fulfilled(dbGetAllEntries(store)))

\* ------------------------------------------------------------------------
\* Reading files: loadFromFile, importFromFile
\* ------------------------------------------------------------------------

\* A file whose text is not JSON, whose JSON is `null`, or whose JSON is an
\* object without an `entries` array.  An empty file is not JSON either.
NotJsonFile == [state |-> "notJson", entries |-> <<>>]
JsonNullFile == [state |-> "null", entries |-> <<>>]
NoEntriesFile == [state |-> "noEntries", entries |-> <<>>]

\* data.entries.map(serializableToEntry)
Deserialize(docs) == [i \in 1..Len(docs) |-> serializableToEntry(docs[i])]

\* JSON.parse(text) and the test `!data.entries || !Array.isArray(...)`:
\* JSON.parse throws SyntaxError; reading `.entries` of null throws
\* TypeError; "InvalidFormat" is the Error the test itself raises.
ParseError(f) ==
  CASE f.state \in {"empty", "notJson"} -> "SyntaxError"
    [] f.state = "null" -> "TypeError"
    [] f.state = "noEntries" -> "InvalidFormat"
    [] OTHER -> ""

\* importFromFile(file): the entries, or the error it throws.
importFromFile(f) ==
  IF ParseError(f) # "" THEN [error |-> ParseError(f), entries |-> <<>>]
  ELSE [error |-> "", entries |-> Deserialize(f.entries)]

\* The promise resolved with null instead of an array.
ReturnedNull == [state |-> "null", error |-> "", value |-> <<>>]

\* A variant of loadFromFile that treats an unreadable file as a missing one.
loadFromFileLenient(f, readOk) ==
  IF f.state = "absent" \/ ~readOk \/ ParseError(f) # ""
  THEN Fulfilled(<<>>)
  ELSE Fulfilled(Deserialize(f.entries))

\* loadFromFile once it has the directory handle (lines 250-275): [] for
\* NotFoundError, null for any other exception and for a document without
\* an entries array, else the entries.
loadFromFileResult(f, readOk) ==
  IF f.state = "absent" THEN Fulfilled(<<>>)
  ELSE IF ~readOk \/ ParseError(f) # "" THEN ReturnedNull
  ELSE Fulfilled(Deserialize(f.entries))

\* loadFromFile: getDirectoryHandle() outside the try (line 244), then the
\* read.
loadFromFile ==
  /\ CanInvoke
  /\ Begin("loadFromFile", <<>>, Undef, NoOptions, "local")
  /\ pc' = "done"
  /\ \E answer \in Answers, readOk \in BOOLEAN :
       LET h == getDirectoryHandle(handleStored, permission, answer)
       IN /\ permission' = h.permission
          /\ result' = CASE h.handle = "throw" -> Rejected("SecurityError")
                         [] h.handle = "null" -> ReturnedNull
                         [] OTHER -> loadFromFileResult(file, readOk)
  /\ UNCHANGED <<store, file, handleStored, remoteVars>>

\* Files the user can pick for import: exports of entries, and files that
\* are not exports.
Uploads ==
  {MirrorDocument(b) : b \in Batches} \cup {NotJsonFile, JsonNullFile, NoEntriesFile}

\* handleImportFile: importFromFile(file), then importEntries(entries); an
\* exception of either is caught and shown.
handleImportFile(upload) ==
  LET r == importFromFile(upload)
  IN IF r.error # ""
     THEN /\ CanInvoke
          /\ UNCHANGED store
          /\ LocalDone("importFromFile", <<>>, Undef, NoOptions, Rejected(r.error))
     ELSE importEntries(r.entries)

\* ------------------------------------------------------------------------
\* Settings page and environment
\* ------------------------------------------------------------------------

\* The caller's await returns: the page has the outcome of the call.
Return ==
  /\ pc = "done"
  /\ pc' = "idle"
  /\ call' = NoCall
  /\ result' = NoResult
  /\ sync' = NoSync
  /\ snap' = <<>>
  /\ UNCHANGED <<store, file, handleStored, permission, txn, remoteVars>>

\* The browser drops the granted permission (tab closed, site settings), at
\* any moment of a call.
RevokePermission ==
  /\ permission = "granted"
  /\ permission' = "prompt"
  /\ UNCHANGED <<store, file, handleStored, txn, remoteVars, pc, call, result, sync, snap>>

\* handleSelectDirectory: the picker grants read-write access and the handle
\* is saved; the existing entries, if any, are written with saveToFile.
handleSelectDirectory ==
  /\ CanInvoke
  /\ handleStored' = TRUE
  /\ permission' = "granted"
  /\ LET entries == getAllEntriesInternal(store)
     IN IF Len(entries) > 0
        THEN \/ file' = saveToFileWrites(file, entries)
             \/ \E created \in BOOLEAN : file' = FileAfterFailedSave(file, created)
        ELSE file' = file
  /\ UNCHANGED <<store, txn, remoteVars, pc, call, result, sync, snap>>

\* handleClearDirectory: clearDirectoryHandle().
handleClearDirectory ==
  /\ CanInvoke
  /\ handleStored
  /\ handleStored' = FALSE
  /\ UNCHANGED <<store, file, permission, txn, remoteVars, pc, call, result, sync, snap>>

Next ==
  \/ \E e \in EntryPool : \E o \in CallOptions(e.id) : addEntry(e, o)
  \/ \E o \in CallOptions("a1") : getAllEntries(o)
  \/ \E id \in Ids : \E o \in CallOptions(id) : getEntry(id, o)
  \/ \E id \in Ids : \E o \in CallOptions(id) : deleteEntry(id, o)
  \/ \E e \in EntryPool : \E o \in CallOptions(e.id) : updateEntry(e, o)
  \/ \E b \in Batches : importEntries(b)
  \/ TxPut
  \/ TxDone
  \/ clearAllEntries
  \/ db_getAllEntries
  \/ loadFromFile
  \/ \E u \in Uploads : handleImportFile(u)
  \/ SyncGetHandle
  \/ SyncRead
  \/ SaveGetHandle
  \/ SaveWrite
  \/ Return
  \/ RevokePermission
  \/ handleSelectDirectory
  \/ handleClearDirectory

Spec == Init /\ [][Next]_vars

\* ------------------------------------------------------------------------
\* Properties
\* ------------------------------------------------------------------------

\* The step that starts a facade call and runs it to its first await.
InvokeStep == pc = "idle" /\ pc' # "idle"

LocalMutation ==
  /\ call.used = "local"
  /\ call.op \in {"addEntry", "updateEntry", "deleteEntry", "importEntries"}

SyncPcs == {"syncToFile", "syncRead", "saveToFile", "saveWrite"}

\* C1: a call of addEntry, getAllEntries, getEntry, updateEntry or deleteEntry
\* goes to the Remote Store Adapter exactly when its own options carry a
\* non-empty userId and isAuthenticated = true, whatever earlier calls did;
\* the backend that is not chosen is left untouched.
C1_Routing ==
  [][(InvokeStep /\ call'.op \in {"addEntry", "getAllEntries", "getEntry",
                                  "updateEntry", "deleteEntry"})
     => /\ call'.used \in {"local", "remote"}
        /\ call'.used = "remote" <=>
             /\ call'.options.given
             /\ call'.options.userId \notin {Undef, ""}
             /\ call'.options.isAuthenticated = "true"
        /\ call'.used = "remote" => store' = store /\ pc' = "done"
        /\ call'.used = "local" => rows' = rows /\ blobs' = blobs]_vars

\* C1 witness: after remote calls have written a row, a call whose options
\* carry the user but isAuthenticated = false has used the Local Store.
C1_Witness ==
  /\ pc = "done"
  /\ call.op = "updateEntry"
  /\ call.options = Options("u1", "false")
  /\ call.used = "local"
  /\ rows # {}
  /\ call.entries[1] \in store

\* C2: a local add, update, delete or import that succeeded has run the
\* mirror sync once; with a stored handle and granted permission the sync
\* ended in the write or in an I/O failure, and after the write the file is
\* the serialization of all entries of the Local Store, so the entries of
\* the file are exactly the entries of the store.
C2_MirrorAfterSync ==
  (pc = "done" /\ LocalMutation /\ result.state = "fulfilled")
  => /\ sync.runs = 1
     /\ (handleStored /\ permission = "granted")
          => sync.outcome \in {"written", "readError", "writeError"}
     /\ sync.outcome = "written"
          => /\ file = MirrorDocument(getAllEntriesInternal(store))
             /\ FileEntries(file) = store

\* C2 witness: a local delete has been mirrored and the file holds the one
\* entry that is left.
C2_Witness ==
  /\ pc = "done"
  /\ call.op = "deleteEntry"
  /\ call.used = "local"
  /\ sync.outcome = "written"
  /\ Cardinality(store) = 1
  /\ Len(file.entries) = 1
  /\ ~HasKey(store, call.id)

\* C3: a call routed to the Remote Store Adapter, and a local getAllEntries
\* or getEntry, never runs the directory sync and leaves the mirror file as
\* it was.
C3_NoSyncOnRemoteOrRead ==
  [][(pc' = "done" /\ (call'.used = "remote" \/ call'.op \in {"getAllEntries", "getEntry"}))
     => (file' = file /\ sync' = NoSync)]_vars

\* C3 witness: a remote add has succeeded while a directory is granted and
\* the mirror file exists.
C3_Witness ==
  /\ pc = "done"
  /\ call.op = "addEntry"
  /\ call.used = "remote"
  /\ result.state = "fulfilled"
  /\ handleStored
  /\ permission = "granted"
  /\ file.state = "json"
  /\ FileEntries(file) # {fromSupabaseEntry(r, Undef) : r \in rows}

\* What the local mutation of the call leaves in the store.
MutationApplied ==
  CASE call.op \in {"addEntry", "updateEntry"} -> call.entries[1] \in store
    [] call.op = "deleteEntry" -> ~HasKey(store, call.id)
    [] call.op = "importEntries" -> store = ApplyPuts(store, call.entries)
    [] OTHER -> TRUE

\* C4: however the directory sync of a local add, update, delete or import
\* ends (no handle, permission refused or throwing, reading the entries
\* failing, the file write failing), the call is fulfilled, its mutation is
\* in the Local Store, and the sync ran once; a call is rejected only by
\* its store operation, before any sync.
C4_SyncFailureSwallowed ==
  /\ (pc = "done" /\ LocalMutation /\ sync.runs > 0)
       => /\ result.state = "fulfilled"
          /\ sync.runs = 1
          /\ MutationApplied
  /\ (LocalMutation /\ result.state = "rejected")
       => /\ sync = NoSync
          /\ result.error \in {"ConstraintError", "DataError", "AbortError"}

\* C4 witness: requestPermission threw inside the sync of a local add, and
\* the add is fulfilled with its entry stored.
C4_Witness ==
  /\ pc = "done"
  /\ call.op = "addEntry"
  /\ call.used = "local"
  /\ sync.outcome = "threw"
  /\ result.state = "fulfilled"
  /\ call.entries[1] \in store

\* C5 as stated: the sync runs after the call's promise has resolved.
C5_FireAndForget ==
  (pc \in SyncPcs /\ LocalMutation) => result.state = "fulfilled"

\* C5, amended: the sync is awaited.  While the sync of a local mutating
\* call runs, the call's promise is pending; it is fulfilled only when the
\* sync has ended (written, skipped, or failed and swallowed).
C5_SyncAwaited ==
  /\ (pc \in SyncPcs /\ LocalMutation) => result.state = "pending"
  /\ (LocalMutation /\ result.state = "fulfilled")
       => pc = "done" /\ sync.runs = 1 /\ sync.outcome # "running"

\* C5 witness: the store holds the added entry, the file write has not
\* happened yet, and the promise is still pending.
C5_Witness ==
  /\ pc = "saveWrite"
  /\ call.op = "addEntry"
  /\ call.entries[1] \in store
  /\ call.entries[1] \notin FileEntries(file)
  /\ result.state = "pending"

\* C6: a local add of an entry whose id is already stored is rejected with
\* the duplicate error (ConstraintError) and changes neither the Local Store
\* nor the mirror file.
C6_DuplicateAdd ==
  [][(InvokeStep /\ call'.op = "addEntry" /\ call'.used = "local"
        /\ HasKey(store, call'.id))
     => /\ store' = store
        /\ pc' = "done"
        /\ result'.state = "rejected"
        /\ result'.error = "ConstraintError"
        /\ file' = file]_vars

\* C6 witness: the add was rejected as a duplicate and the stored entry with
\* that id still differs from the one offered.
C6_Witness ==
  /\ pc = "done"
  /\ call.op = "addEntry"
  /\ call.used = "local"
  /\ result.error = "ConstraintError"
  /\ HasKey(store, call.id)
  /\ call.entries[1] \notin store

\* C7: after a local add of an entry with a new id, and after any local
\* update, getEntry for that id returns exactly the entry given, every field
\* equal; a local getEntry returns the stored entry with that id.
C7_AddUpdateThenGet ==
  [][/\ (InvokeStep /\ call'.used = "local"
           /\ \/ call'.op = "addEntry" /\ ~HasKey(store, call'.id)
              \/ call'.op = "updateEntry")
        => getEntryLocal(store', call'.id) = call'.entries
     /\ (InvokeStep /\ call'.used = "local" /\ call'.op = "getEntry")
        => /\ result'.state = "fulfilled"
           /\ \A e \in store : e.id = call'.id => result'.value = <<e>>
           /\ ~HasKey(store, call'.id) => result'.value = <<>>]_vars

\* C7 witness: a local update has replaced the version with photo, time and
\* menu (still the one in the mirror file) by the version without them.
C7_Witness ==
  /\ pc = "syncToFile"
  /\ call.op = "updateEntry"
  /\ call.used = "local"
  /\ call.entries = <<A1v2>>
  /\ A1v2 \in store
  /\ A1v1 \in FileEntries(file)

\* s lists the entries of S, each once.
IsListingOf(s, S) ==
  /\ Range(s) = S
  /\ Len(s) = Cardinality(S)

\* s is ordered by (date, time) descending, an absent time counting as 00:00.
NewestFirst(s) ==
  \A i, j \in 1..Len(s) :
    i < j =>
      \/ DateRank(s[i].date) > DateRank(s[j].date)
      \/ /\ s[i].date = s[j].date
         /\ TimeRank(IF s[i].time = Undef THEN "00:00" ELSE s[i].time)
              >= TimeRank(IF s[j].time = Undef THEN "00:00" ELSE s[j].time)

\* C8: a local listing returns every stored entry exactly once, newest
\* first by (date, time), an entry without time ordered as 00:00.
C8_ListNewestFirst ==
  (pc = "done" /\ call.used = "local" /\ call.op \in {"getAllEntries", "db.getAllEntries"})
  => /\ result.state = "fulfilled"
     /\ IsListingOf(result.value, store)
     /\ NewestFirst(result.value)

\* C9: a local delete of an id that is not stored changes nothing in the
\* Local Store and is not rejected; every local delete ends fulfilled.
C9_DeleteAbsent ==
  [][/\ (InvokeStep /\ call'.op = "deleteEntry" /\ call'.used = "local"
           /\ ~HasKey(store, call'.id))
        => store' = store /\ result'.state # "rejected"
     /\ (pc' = "done" /\ call'.op = "deleteEntry" /\ call'.used = "local")
        => result'.state = "fulfilled" /\ store' = store]_vars

\* C9 witness: a local delete of a2 is fulfilled while the store holds only
\* a1, as it did when the mirror file was last written.
C9_Witness ==
  /\ pc = "done"
  /\ call.op = "deleteEntry"
  /\ call.used = "local"
  /\ call.id = "a2"
  /\ result.state = "fulfilled"
  /\ store = {A1v1}
  /\ sync.outcome = "noHandle"
  /\ FileEntries(file) = {A1v1}

\* C10: importEntries is all-or-nothing: no step of the import makes only a
\* part of the batch visible in the Local Store; the store changes only by
\* the commit of the whole batch, and a rejected import has changed nothing.
C10_ImportAtomic ==
  [][(pc = "tx" /\ call.op = "importEntries")
     => \/ store' = store
        \/ /\ result'.state # "rejected"
           /\ store' = ApplyPuts(store, call.entries)]_vars

\* The step that starts a facade call on the Remote Store Adapter.
RemoteStep(op) == InvokeStep /\ call'.op = op /\ call'.used = "remote"

\* C11: a remote add of an entry with a photo whose metadata insert fails is
\* rejected with the insert error and leaves neither a metadata row nor a
\* blob for that entry.
C11_AddRollback ==
  [][(RemoteStep("addEntry") /\ call'.entries[1].photo # Undef
        /\ result'.state = "rejected" /\ result'.error = "BackendError")
     => /\ ~\E r \in rows' : r.id = call'.id
        /\ BlobAt(blobs', PhotoPath(call'.options.userId, call'.id)) = {}]_vars

\* C12: a remote update of an existing row that succeeds leaves the photo
\* reference decided by three cases: with a photo, the row references the
\* blob just uploaded; without a photo but with a reference, the old blob is
\* gone and the reference is null; otherwise reference and blobs are as
\* before.
C12_UpdatePhotoCases ==
  [][(RemoteStep("updateEntry") /\ result'.state = "fulfilled"
        /\ RowsOf(rows, call'.id, call'.options.userId) # {})
     => LET userId == call'.options.userId
            e == call'.entries[1]
            path == PhotoPath(userId, e.id)
            old == CHOOSE x \in RowsOf(rows, e.id, userId) : TRUE
            new == CHOOSE x \in RowsOf(rows', e.id, userId) : TRUE
        IN /\ RowsOf(rows', e.id, userId) # {}
           /\ IF e.photo # Undef
              THEN /\ new.photo_url = path
                   /\ BlobAt(blobs', path) = {[path |-> path, bytes |-> e.photo]}
              ELSE IF old.photo_url # NullPath
              THEN /\ new.photo_url = NullPath
                   /\ BlobAt(blobs', old.photo_url) = {}
              ELSE /\ new.photo_url = old.photo_url
                   /\ blobs' = blobs]_vars

\* C13: a remote operation for user U touches only what is U's: rows of
\* other users are neither changed nor removed, a row it writes has
\* user_id = U, a blob it writes or removes lies under U/, and the entries
\* a listing or a get returns come from rows whose user_id is U.
C13_UserScoped ==
  [][(InvokeStep /\ call'.used = "remote")
     => LET U == call'.options.userId
        IN /\ \A r \in rows : r.user_id # U => r \in rows'
           /\ \A r \in rows' \ rows : r.user_id = U
           /\ \A b \in (blobs \ blobs') \cup (blobs' \ blobs) : b.path[1] = U
           /\ call'.op \in {"getAllEntries", "getEntry"}
                => /\ result'.state = "fulfilled"
                   /\ \A i \in 1..Len(result'.value) :
                        \E r \in rows : /\ r.user_id = U
                                        /\ r.id = result'.value[i].id
                                        /\ r.date = result'.value[i].date
           /\ call'.op = "getEntry"
                => \A i \in 1..Len(result'.value) : result'.value[i].id = call'.id]_vars

\* C13 witness: u1 has updated its entry a1 (photo uploaded under u1/) while
\* the only row, with its blob, belongs to u2 and is as it was.
C13_Witness ==
  /\ pc = "done"
  /\ call.op = "updateEntry"
  /\ call.used = "remote"
  /\ call.options.userId = "u1"
  /\ result.state = "fulfilled"
  /\ \E r \in rows : r.user_id = "u2" /\ r.id = call.id /\ r.photo_url = PhotoPath("u2", "a1")
  /\ BlobAt(blobs, PhotoPath("u2", "a1")) # {}
  /\ BlobAt(blobs, PhotoPath("u1", "a1")) # {}

\* C14 as stated: without a remote client every operation of the Remote
\* Store Adapter fails with the configuration error and reads and writes
\* nothing remote.
C14_AllFailNotConfigured ==
  [][(InvokeStep /\ call'.used = "remote" /\ ~configured)
     => /\ result' = Rejected("NotConfigured")
        /\ rows' = rows
        /\ blobs' = blobs]_vars

\* C14, amended: without a remote client add, update and delete fail with
\* the configuration error, while get returns undefined and listAll returns
\* the empty list without any error; none of the five reads or writes
\* anything remote.
C14_NotConfigured ==
  [][(InvokeStep /\ call'.used = "remote" /\ ~configured)
     => /\ pc' = "done"
        /\ rows' = rows
        /\ blobs' = blobs
        /\ call'.op \in {"addEntry", "updateEntry", "deleteEntry"}
             => result' = Rejected("NotConfigured")
        /\ call'.op \in {"getAllEntries", "getEntry"}
             => result' = Fulfilled(<<>>)]_vars

\* C14 witness: without a client a remote add of an entry with a photo was
\* rejected with the configuration error and nothing was uploaded.
C14_Witness ==
  /\ pc = "done"
  /\ ~configured
  /\ call.op = "addEntry"
  /\ call.used = "remote"
  /\ call.entries[1].photo # Undef
  /\ result = Rejected("NotConfigured")
  /\ rows = {}
  /\ blobs = {}

\* C15: a remote listing is never rejected, and unless the row query itself
\* failed (empty list) it returns every row of the user once, each entry
\* with all fields of its row and with the photo either the referenced
\* bytes or absent.
C15_ListingSurvivesPhoto ==
  [][(RemoteStep("getAllEntries") /\ configured)
     => LET mine == {r \in rows : r.user_id = call'.options.userId}
            v == result'.value
        IN /\ result'.state = "fulfilled"
           /\ \/ v = <<>>
              \/ /\ Len(v) = Cardinality(mine)
                 /\ \A r \in mine : \E i \in 1..Len(v) :
                      \/ v[i] = fromSupabaseEntry(r, Undef)
                      \/ v[i] = fromSupabaseEntry(r, FetchPhoto(blobs, r.photo_url, "ok"))]_vars

C17_MalformedRaises ==
  [][(InvokeStep /\ call'.op = "loadFromFile" /\ handleStored /\ permission' = "granted")
     => /\ file.state = "absent" => result' = Fulfilled(<<>>)
        /\ ParseError(file) = "SyntaxError" => result'.state = "rejected"]_vars

\* C17, amended: with a granted directory loadFromFile never raises: a
\* missing mirror file loads as the empty list, and a file that is not JSON
\* (or has no entries array, or cannot be read) makes it return null, which
\* differs from the empty list.
C17_LoadMissingOrMalformed ==
  [][(InvokeStep /\ call'.op = "loadFromFile" /\ handleStored /\ permission' = "granted")
     => /\ result'.state # "rejected"
        /\ file.state = "absent" => result' = Fulfilled(<<>>)
        /\ ParseError(file) # "" => result' = ReturnedNull /\ result' # Fulfilled(<<>>)
        /\ store' = store
        /\ file' = file]_vars

\* C17 witness: the mirror file exists but is empty (created by a save that
\* failed before writing), and loadFromFile returned null.
C17_Witness ==
  /\ pc = "done"
  /\ call.op = "loadFromFile"
  /\ handleStored
  /\ permission = "granted"
  /\ file.state = "empty"
  /\ result = ReturnedNull
  /\ store # {}

\* C18: importFromFile of a file that parses but has no top-level entries
\* array fails with the InvalidFormat error, and the import flow then
\* changes neither the Local Store nor the mirror file.
C18_InvalidFormat ==
  [][(InvokeStep /\ call'.op = "importFromFile" /\ result'.error # "SyntaxError")
     => /\ result' = Rejected("InvalidFormat")
        /\ pc' = "done"
        /\ store' = store
        /\ file' = file]_vars

\* ------------------------------------------------------------------------
\* The file format on its own: export an entry, import the file
\* ------------------------------------------------------------------------

\* Field values of the entries the pages build: time is the value of the
\* time input ('' when left empty), menu is `menu.trim() || undefined`.
TimeValues == {Undef, "", "12:30", "18:45"}
MenuValues == {Undef, "curry", "toast"}
PhotoValues == {Undef, "p1", "p2"}

FormatEntries ==
  {[id |-> "a1", date |-> d, time |-> t, mealType |-> m, menu |-> n, photo |-> p,
    createdAt |-> 1000] :
     d \in {"2024-01-27", "2024-01-28"}, t \in TimeValues, m \in MealTypes,
     n \in MenuValues, p \in PhotoValues}

\* Records of a file written by the first version of the app: menuName
\* instead of menu, no mealType.
LegacyDocs ==
  {[id |-> "b1", date |-> "2024-01-01", time |-> t, mealType |-> Undef, menu |-> Undef,
    menuName |-> n, photo |-> IF p = Undef THEN Undef ELSE readAsDataURL(p),
    photoIsBase64 |-> p # Undef, createdAt |-> 500] :
     t \in {Undef, "12:30"}, n \in {"soup", "toast"}, p \in {Undef, "p1"}}

\* Either an entry about to be exported, or a legacy file about to be
\* imported; the stores play no part.
FormatInit ==
  /\ store = {}
  /\ handleStored = FALSE
  /\ permission = "prompt"
  /\ rows = {}
  /\ blobs = {}
  /\ configured = FALSE
  /\ auth = NoSession
  /\ bucketReliable = FALSE
  /\ call = NoCall
  /\ result = NoResult
  /\ sync = NoSync
  /\ txn = NoTxn
  /\ \/ /\ pc = "export"
        /\ snap \in {<<e>> : e \in FormatEntries}
        /\ file = NoFile
     \/ /\ pc = "import"
        /\ snap = <<>>
        /\ file \in {JsonFile(<<d>>) : d \in LegacyDocs}

\* exportToDownload(entries): the document offered for download.
exportToDownload ==
  /\ pc = "export"
  /\ file' = MirrorDocument(snap)
  /\ pc' = "import"
  /\ UNCHANGED <<store, handleStored, permission, remoteVars, call, result, sync, snap, txn>>

\* importFromFile(file) on that document.
importUpload ==
  /\ pc = "import"
  /\ LET r == importFromFile(file)
     IN result' = IF r.error # "" THEN Rejected(r.error) ELSE Fulfilled(r.entries)
  /\ pc' = "parsed"
  /\ UNCHANGED <<store, file, handleStored, permission, remoteVars, call, sync, snap, txn>>

FormatNext == exportToDownload \/ importUpload

FormatSpec == FormatInit /\ [][FormatNext]_vars

C20_LegacyEntry ==
  (pc = "parsed" /\ snap = <<>>)
  => /\ result.state = "fulfilled"
     /\ Len(result.value) = 1
     /\ LET d == file.entries[1]
            e == result.value[1]
        IN /\ e.mealType = "lunch"
           /\ e.menu = d.menuName
           /\ e.id = d.id
           /\ e.date = d.date
           /\ e.createdAt = d.createdAt

\* C20 witness: the record {id: b1, date: 2024-01-01, menuName: soup,
\* createdAt: 500} has been parsed.
C20_Witness ==
  /\ pc = "parsed"
  /\ snap = <<>>
  /\ file.entries[1].mealType = Undef
  /\ file.entries[1].menu = Undef
  /\ file.entries[1].time = Undef
  /\ file.entries[1].photo = Undef
  /\ result.value[1].id = "b1"
  /\ result.value[1].menu = "soup"
  /\ result.value[1].mealType = "lunch"
  /\ result.value[1].createdAt = 500

\* ------------------------------------------------------------------
\* Image compression on its own: compressImage
\* ------------------------------------------------------------------

MaxDim == 8

\* Pixel sizes of the picked image, and the maxWidth / maxHeight arguments.
Dims == 1..MaxDim
Limits == {3, 5}

\* canvas.width / canvas.height are unsigned long attributes: the number
\* assigned is truncated to an integer.
ToCanvasSize(num, den) == num \div den

\* The resize branch of img.onload: the longer side is compared with its
\* own limit only, and the other side is scaled by the same factor.
compressImage(width, height, maxWidth, maxHeight) ==
  IF width > height
  THEN IF width > maxWidth
       THEN [width |-> maxWidth, height |-> ToCanvasSize(height * maxWidth, width)]
       ELSE [width |-> width, height |-> height]
  ELSE IF height > maxHeight
       THEN [width |-> ToCanvasSize(width * maxHeight, height), height |-> maxHeight]
       ELSE [width |-> width, height |-> height]

\* An image and the limits compressImage is about to be called with.
ImageInit ==
  /\ store = {}
  /\ file = NoFile
  /\ handleStored = FALSE
  /\ permission = "prompt"
  /\ rows = {}
  /\ blobs = {}
  /\ configured = FALSE
  /\ auth = NoSession
  /\ bucketReliable = FALSE
  /\ call = NoCall
  /\ result = NoResult
  /\ sync = NoSync
  /\ txn = NoTxn
  /\ pc = "image"
  /\ snap \in {<<[width |-> w, height |-> h, maxWidth |-> mw, maxHeight |-> mh]>> :
                 w \in Dims, h \in Dims, mw \in Limits, mh \in Limits}

\* compressImage(file, maxWidth, maxHeight): canvas.toBlob hands null to
\* its callback for a canvas without pixels, and the promise is rejected.
compressImageCall ==
  /\ pc = "image"
  /\ LET i == snap[1]
         out == compressImage(i.width, i.height, i.maxWidth, i.maxHeight)
     IN result' = IF out.width = 0 \/ out.height = 0
                  THEN Rejected("CompressFailed")
                  ELSE Fulfilled(<<out>>)
  /\ pc' = "compressed"
  /\ UNCHANGED <<store, file, handleStored, permission, remoteVars, call, sync, snap, txn>>

ImageNext == compressImageCall

ImageSpec == ImageInit /\ [][ImageNext]_vars

\* C21: for every input size and every maxWidth / maxHeight the blob
\* compressImage produces is at most maxWidth wide and at most maxHeight
\* high, is no larger than the input in either dimension, and keeps the
\* aspect ratio up to the truncation of one side to a whole pixel.
C21_OutputWithinLimits ==
  (pc = "compressed" /\ result.state = "fulfilled")
  => LET i == snap[1]
         out == result.value[1]
     IN /\ out.width <= i.maxWidth
        /\ out.height <= i.maxHeight
        /\ out.width <= i.width
        /\ out.height <= i.height
        /\ out.width * i.height - out.height * i.width < i.width
        /\ out.height * i.width - out.width * i.height < i.height

\* ------------------------------------------------------------------
\* deleteEntryFromSupabase, request by request
\* ------------------------------------------------------------------

\* The row of entry a1, if any: of either user, with or without a reference
\* to the photo under that user's folder.
DeleteRowSets ==
  {{}} \cup {{toSupabaseEntry(e, u, IF withPhoto THEN PhotoPath(u, "a1") ELSE NullPath)} :
               e \in {A1v1, A1v2}, u \in {"u1", "u2"}, withPhoto \in BOOLEAN}

\* The bucket: a photo of a1 under either user's folder, or not.
DeleteBlobSets ==
  {{[path |-> PhotoPath(u, "a1"), bytes |-> "p1"] : u \in U} : U \in SUBSET {"u1", "u2"}}

DeleteInit ==
  /\ store = {}
  /\ file = NoFile
  /\ handleStored = FALSE
  /\ permission = "prompt"
  /\ rows \in DeleteRowSets
  /\ blobs \in DeleteBlobSets
  /\ configured \in BOOLEAN
  /\ auth = NoSession
  /\ bucketReliable = FALSE
  /\ pc = "idle"
  /\ call = NoCall
  /\ result = NoResult
  /\ sync = NoSync
  /\ snap = <<>>
  /\ txn = NoTxn

\* What deleteEntryFromSupabase knows after the select: the photo_url it
\* read, and what deletePhoto returned ("notCalled" before the call).
Existing(photoUrl, removed) == [photoUrl |-> photoUrl, removed |-> removed]

\* A variant that goes to the row deletion whatever the select returned.
AfterSelectSkipsPhoto(photoUrl) == "deleteRow"

\* if (photoUrl) { await deletePhoto(photoUrl); } and then the row delete.
AfterSelect(photoUrl) == IF photoUrl # NullPath THEN "deletePhoto" ELSE "deleteRow"

\* createClient(); the call goes on only with a client.
deleteFromSupabaseStart(id, options) ==
  /\ pc = "idle"
  /\ Begin("deleteEntry", <<>>, id, options, "remote")
  /\ IF createClient(configured) = Null
     THEN pc' = "done" /\ result' = Rejected("NotConfigured")
     ELSE pc' = "select" /\ result' = Pending
  /\ UNCHANGED <<store, file, handleStored, permission, remoteVars>>

\* select('photo_url').eq('id', id).eq('user_id', userId).single(): data
\* is null when the request fails or no row matches; the error is not read.
deleteSelectExisting ==
  /\ pc = "select"
  /\ \E selOk \in BOOLEAN :
       LET photoUrl == SelectPhotoUrl(RowsOf(rows, call.id, call.options.userId), selOk)
       IN /\ snap' = <<Existing(photoUrl, "notCalled")>>
          /\ pc' = AfterSelect(photoUrl)
  /\ UNCHANGED <<store, file, handleStored, permission, remoteVars, call, result, sync, txn>>

\* await deletePhoto(photoUrl): true or false, not read by the caller.
deleteRemovePhoto ==
  /\ pc = "deletePhoto"
  /\ \E rmOk \in StorageAnswers :
       /\ blobs' = IF rmOk THEN BlobRemove(blobs, snap[1].photoUrl) ELSE blobs
       /\ snap' = <<Existing(snap[1].photoUrl, IF rmOk THEN "ok" ELSE "error")>>
  /\ pc' = "deleteRow"
  /\ UNCHANGED <<store, file, handleStored, permission, rows, envVars, call, result,
                 sync, txn>>

\* from('food_entries').delete().eq('id', id).eq('user_id', userId)
deleteRemoveRow ==
  /\ pc = "deleteRow"
  /\ \E delOk \in BOOLEAN :
       IF delOk
       THEN /\ rows' = rows \ RowsOf(rows, call.id, call.options.userId)
            /\ result' = Fulfilled(<<>>)
       ELSE /\ rows' = rows
            /\ result' = Rejected("BackendError")
  /\ pc' = "done"
  /\ UNCHANGED <<store, file, handleStored, permission, blobs, envVars, call, sync,
                 snap, txn>>

DeleteNext ==
  \/ \E u \in {"u1", "u2"} : deleteFromSupabaseStart("a1", Options(u, "true"))
  \/ deleteSelectExisting
  \/ deleteRemovePhoto
  \/ deleteRemoveRow

DeleteSpec == DeleteInit /\ [][DeleteNext]_vars

MaxOps == 3

\* Operations whose first statement is `const db = await getDB()`.
LocalOps == {"addEntry", "getAllEntries", "importEntries", "clearAllEntries"}

\* The promise openDB returns, and what it settles to.
Opening(serial) == [state |-> "pending", error |-> "", value |-> <<serial>>]
Opened(serial) == Fulfilled(<<serial>>)
OpenFailed(serial) == [state |-> "rejected", error |-> "OpenError", value |-> <<serial>>]

\* Number of openDB calls made so far.
Opens(dbPromise) == IF dbPromise = NoResult THEN 0 ELSE dbPromise.value[1]

\* A variant of getDB without the cache test.
getDBReopens(dbPromise) == Opening(Opens(dbPromise) + 1)

\* getDB: if (!dbPromise) dbPromise = openDB(...); return dbPromise.  The
\* test and the assignment run without an await between them.
getDB(dbPromise) == IF dbPromise = NoResult THEN Opening(1) ELSE dbPromise

OpenInit ==
  /\ store = {}
  /\ file = NoFile
  /\ handleStored = FALSE
  /\ permission = "prompt"
  /\ rows = {}
  /\ blobs = {}
  /\ configured = FALSE
  /\ auth = NoSession
  /\ bucketReliable = FALSE
  /\ pc = "idle"
  /\ call = NoCall
  /\ result = NoResult
  /\ sync = NoSync
  /\ snap = <<>>
  /\ txn = NoTxn

\* A page starts an operation, whatever the others are doing: getDB() runs
\* and the operation waits for the promise it was given.
StartOperation(op) ==
  /\ Len(snap) < MaxOps
  /\ result' = getDB(result)
  /\ snap' = Append(snap, [op |-> op, at |-> "await", db |-> result'.value[1]])
  /\ UNCHANGED <<store, file, handleStored, permission, remoteVars, pc, call, sync, txn>>

\* The open request of the cached promise succeeds or fails.
OpenSettles ==
  /\ result.state = "pending"
  /\ \/ result' = Opened(result.value[1])
     \/ result' = OpenFailed(result.value[1])
  /\ UNCHANGED <<store, file, handleStored, permission, remoteVars, pc, call, sync, snap, txn>>

\* An operation's `await getDB()` resumes once the promise it holds has
\* settled: with the handle, or with the rejection.
OperationResumes(i) ==
  /\ i \in 1..Len(snap)
  /\ snap[i].at = "await"
  /\ result.state \in {"fulfilled", "rejected"}
  /\ snap[i].db = result.value[1]
  /\ snap' = [snap EXCEPT ![i].at = IF result.state = "fulfilled" THEN "using" ELSE "failed"]
  /\ UNCHANGED <<store, file, handleStored, permission, remoteVars, pc, call, result, sync, txn>>

\* The operation has used the handle and returns.
OperationEnds(i) ==
  /\ i \in 1..Len(snap)
  /\ snap[i].at = "using"
  /\ snap' = [snap EXCEPT ![i].at = "done"]
  /\ UNCHANGED <<store, file, handleStored, permission, remoteVars, pc, call, result, sync, txn>>

OpenNext ==
  \/ \E op \in LocalOps : StartOperation(op)
  \/ OpenSettles
  \/ \E i \in 1..MaxOps : OperationResumes(i)
  \/ \E i \in 1..MaxOps : OperationEnds(i)

OpenSpec == OpenInit /\ [][OpenNext]_vars

\* C23: the Local Store is opened at most once: whatever operations have
\* been started, and wherever each of them stands (also several of them
\* waiting for the first open), openDB has been called exactly once as soon
\* as one operation has started, and every operation holds the promise of
\* that one call.
C23_OpenedOnce ==
  /\ Opens(result) <= 1
  /\ Len(snap) > 0 => Opens(result) = 1
  /\ \A i \in 1..Len(snap) : snap[i].db = 1

\* C23 witness: three operations were started before the open completed and
\* all wait for the same pending promise.
C23_Witness ==
  /\ Len(snap) = 3
  /\ result = Opening(1)
  /\ \A i \in 1..3 : snap[i].at = "await" /\ snap[i].db = 1
  /\ snap[1].op # snap[2].op

\* ------------------------------------------------------------------
\* The pages: what they pass to the facade
\* ------------------------------------------------------------------

\* canUseCloudSync(plan)
canUseCloudSync(plan) == plan = "premium"

\* What the auth context can hold: no session, or user u1 with the plan of
\* the profile ('free' also when the profile could not be fetched).
Sessions == {NoSession} \cup {[user |-> "u1", plan |-> p] : p \in PlanTypes}

\* The options the add and edit pages pass:
\* { userId: user?.id, isAuthenticated }, with isAuthenticated = !!user.
PageOptions(a) == Options(a.user, IF a.user = Undef THEN "false" ELSE "true")

\* Values of the form fields, ids crypto.randomUUID() returns, and values of
\* Date.now().
Forms == {A1v1, A1v2}
PageIds == {"a1", "a2"}
Stamps == {1000, 2000}

\* The add page's entry: a new id, the form fields, createdAt: Date.now().
NewEntry(form, id, now) == [form EXCEPT !.id = id, !.createdAt = now]

\* The entry the edit page holds as originalEntry: what getEntry returned
\* with the page's options.
Originals(id, a) ==
  IF shouldUseSupabase(PageOptions(a))
  THEN {fromSupabaseEntry(r, Undef) : r \in RowsOf(rows, id, a.user)}
  ELSE StoreGet(store, id)

\* A variant of the edit page's entry that takes createdAt from the form.
EditedEntryStamped(original, form) == [form EXCEPT !.id = original.id]

\* The edit page's updatedEntry: id and createdAt of originalEntry, the rest
\* from the form.
EditedEntry(original, form) ==
  [form EXCEPT !.id = original.id, !.createdAt = original.createdAt]

\* Backup files the settings page is given: one record each.
PageUploads ==
  {MirrorDocument(<<NewEntry(f, id, t)>>) : f \in Forms, id \in PageIds, t \in Stamps}

PageInit ==
  /\ store = {}
  /\ file = NoFile
  /\ handleStored = FALSE
  /\ permission = "prompt"
  /\ rows = {}
  /\ blobs = {}
  /\ configured = TRUE
  /\ auth \in Sessions
  /\ bucketReliable = FALSE
  /\ pc = "idle"
  /\ call = NoCall
  /\ result = NoResult
  /\ sync = NoSync
  /\ snap = <<>>
  /\ txn = NoTxn

\* Add page, handleSubmit.  A random UUID is an id no entry has.
addPageSubmit(form, id, now) ==
  /\ StoreGet(store, id) = {}
  /\ \A r \in rows : r.id # id
  /\ addEntry(NewEntry(form, id, now), PageOptions(auth))

\* Edit page, handleSubmit, for an entry loadEntry found.
editPageSubmit(form, id) ==
  \E original \in Originals(id, auth) :
    updateEntry(EditedEntry(original, form), PageOptions(auth))

\* Home page: loadEntries and handleDelete call the facade without options.
homeLoadEntries == getAllEntries(NoOptions)
homeDelete(id) == deleteEntry(id, NoOptions)

PageNext ==
  \/ \E f \in Forms, id \in PageIds, now \in Stamps : addPageSubmit(f, id, now)
  \/ \E f \in Forms, id \in PageIds : editPageSubmit(f, id)
  \/ homeLoadEntries
  \/ \E id \in PageIds : homeDelete(id)
  \/ \E u \in PageUploads : handleImportFile(u)
  \/ TxPut
  \/ TxDone
  \/ SyncGetHandle
  \/ Return

PageSpec == PageInit /\ [][PageNext]_vars

\* C24: only a premium user's entries go to or come from the remote store:
\* a facade call a page starts uses the remote adapter only when
\* canUseCloudSync(plan) holds, and for a 'free' or 'member' user it uses
\* the Local Store and leaves the remote table and bucket alone.
C24_PremiumOnly ==
  [][InvokeStep
       => /\ call'.used = "remote" => canUseCloudSync(auth.plan)
          /\ ~canUseCloudSync(auth.plan)
               => call'.used = "local" /\ rows' = rows /\ blobs' = blobs]_vars

\* createdAt of the entry with this id, as a set (empty when there is none).
LocalCreatedAt(s, id) == {e.createdAt : e \in StoreGet(s, id)}
RemoteCreatedAt(r, id) == {x.created_at : x \in {y \in r : y.id = id}}

\* No step changes the createdAt of an id that is there before and after.
CreatedAtKept(id) ==
  /\ (LocalCreatedAt(store, id) # {} /\ LocalCreatedAt(store', id) # {})
       => LocalCreatedAt(store', id) = LocalCreatedAt(store, id)
  /\ (RemoteCreatedAt(rows, id) # {} /\ RemoteCreatedAt(rows', id) # {})
       => RemoteCreatedAt(rows', id) = RemoteCreatedAt(rows, id)

\* The step commits records of the file being imported.
ImportCommits == call.op = "importEntries" /\ store' # store

\* C25 as stated: over add, edit, import and delete, an entry that stays in
\* a store keeps the createdAt it was created with.
C25_CreatedAtImmutable ==
  [][\A id \in PageIds : CreatedAtKept(id)]_vars

\* C25: add, the edit flow and delete never change the createdAt of an
\* entry that stays in a store; an import overwrites the entries whose ids
\* occur in the file with the file's records, createdAt included.
C25_CreatedAtKeptButImport ==
  [][/\ ~ImportCommits => \A id \in PageIds : CreatedAtKept(id)
     /\ ImportCommits
          => \A id \in PageIds :
               \/ CreatedAtKept(id)
               \/ \E i \in 1..Len(call.entries) :
                    /\ call.entries[i].id = id
                    /\ LocalCreatedAt(store', id) = {call.entries[i].createdAt}]_vars

\* C25 witness: an entry created at 2000 was edited through the edit page
\* (whose form here carries another value) and is stored with 2000.
C25_Witness ==
  /\ pc = "done"
  /\ call.op = "updateEntry"
  /\ call.used = "local"
  /\ result.state = "fulfilled"
  /\ call.entries[1].createdAt = 2000
  /\ call.entries[1].date = A1v1.date
  /\ A1v1.createdAt # 2000
  /\ call.entries[1] \in store

\* ------------------------------------------------------------------
\* The remote store under add, update and delete
\* ------------------------------------------------------------------

\* Options of a signed-in user, for either of two users.
RemoteOptions == {Options("u1", "true"), Options("u2", "true")}

\* As Init, with Supabase configured; the bucket may be one whose calls all
\* succeed.
RemoteInit ==
  /\ store = {}
  /\ file = NoFile
  /\ handleStored = FALSE
  /\ permission = "prompt"
  /\ rows = {}
  /\ blobs = {}
  /\ configured = TRUE
  /\ auth = NoSession
  /\ bucketReliable \in BOOLEAN
  /\ pc = "idle"
  /\ call = NoCall
  /\ result = NoResult
  /\ sync = NoSync
  /\ snap = <<>>
  /\ txn = NoTxn

RemoteNext ==
  \/ \E e \in EntryPool, o \in RemoteOptions : addEntry(e, o)
  \/ \E e \in EntryPool, o \in RemoteOptions : updateEntry(e, o)
  \/ \E id \in Ids, o \in RemoteOptions : deleteEntry(id, o)
  \/ Return

RemoteSpec == RemoteInit /\ [][RemoteNext]_vars

\* C26: no dangling reference: in every state reached by remote add, update
\* and delete, metadata write failures included, the photo_url of a row, when
\* not null, names an object that is in the bucket.
C26_NoDanglingReference ==
  \A r \in rows : r.photo_url # NullPath => BlobAt(blobs, r.photo_url) # {}

\* C27: no orphan object: when every call of the bucket succeeds, each
\* object {userId}/{entryId}.jpg in the bucket is the photo_url of a row
\* with that id and that user_id, also after an update for an id without a
\* row and after a failed metadata write.
C27_NoOrphanBlob ==
  bucketReliable
  => \A b \in blobs :
       \E r \in rows : r.photo_url = b.path /\ PhotoPath(r.user_id, r.id) = b.path

\* C28: a remote add or update of an entry with a photo that returns without
\* error leaves a row of that id and user whose photo_url is
\* {userId}/{entryId}.jpg and an object at that path, also when the upload
\* failed.
C28_PhotoNeverDropped ==
  [][(/\ InvokeStep
      /\ call'.used = "remote"
      /\ call'.op \in {"addEntry", "updateEntry"}
      /\ result'.state = "fulfilled"
      /\ call'.entries[1].photo # Undef)
       => LET path == PhotoPath(call'.options.userId, call'.id)
          IN /\ \E r \in RowsOf(rows', call'.id, call'.options.userId) : r.photo_url = path
             /\ BlobAt(blobs', path) # {}]_vars

\* ------------------------------------------------------------------
\* Local mutations that overlap, each with its own syncToFile
\* ------------------------------------------------------------------
\*
\* In this specification `snap` lists the mutating calls started so far:
\* the operation, the id it is about, where its syncToFile stands, and the
\* entries that syncToFile read.  A directory is set and access is granted.

MaxOverlap == 2

\* The call has written the store and runs syncToFile.
Running(op, id) == [op |-> op, id |-> id, at |-> "syncToFile", read |-> <<>>]

\* db.add refused the entry: the call is rejected without a sync.
Refused(op, id) == [op |-> op, id |-> id, at |-> "rejected", read |-> <<>>]

\* Ids of the calls still under way.  The pages do not start a second
\* mutation of an entry while one is under way.
Busy(ops) == {ops[i].id : i \in {j \in 1..Len(ops) : ops[j].at \notin {"done", "rejected"}}}

OverlapInit ==
  /\ store \in SUBSET {A1v1, A2v1}
  /\ file = MirrorDocument(getAllEntriesInternal(store))
  /\ handleStored = TRUE
  /\ permission = "granted"
  /\ rows = {}
  /\ blobs = {}
  /\ configured = FALSE
  /\ auth = NoSession
  /\ bucketReliable = FALSE
  /\ pc = "idle"
  /\ call = NoCall
  /\ result = NoResult
  /\ sync = NoSync
  /\ snap = <<>>
  /\ txn = NoTxn

OverlapUnchanged ==
  UNCHANGED <<handleStored, permission, remoteVars, pc, call, result, sync, txn>>

\* addEntry, local branch, up to `await syncToFile()`.
overlapAdd(entry) ==
  /\ Len(snap) < MaxOverlap
  /\ entry.id \notin Busy(snap)
  /\ LET r == StoreAdd(store, entry)
     IN /\ store' = r.store
        /\ snap' = Append(snap, IF r.error # "" THEN Refused("addEntry", entry.id)
                                ELSE Running("addEntry", entry.id))
  /\ UNCHANGED file
  /\ OverlapUnchanged

\* updateEntry, local branch, up to `await syncToFile()`.
overlapUpdate(entry) ==
  /\ Len(snap) < MaxOverlap
  /\ entry.id \notin Busy(snap)
  /\ store' = StoreUpdate(store, entry)
  /\ snap' = Append(snap, Running("updateEntry", entry.id))
  /\ UNCHANGED file
  /\ OverlapUnchanged

\* deleteEntry, local branch, up to `await syncToFile()`.
overlapDelete(id) ==
  /\ Len(snap) < MaxOverlap
  /\ id \notin Busy(snap)
  /\ store' = StoreRemove(store, id)
  /\ snap' = Append(snap, Running("deleteEntry", id))
  /\ UNCHANGED file
  /\ OverlapUnchanged

\* syncToFile of call i: getDirectoryHandle() returns the handle.
overlapGetHandle(i) ==
  /\ i \in 1..Len(snap)
  /\ snap[i].at = "syncToFile"
  /\ getDirectoryHandle(handleStored, permission, "granted").handle = "handle"
  /\ snap' = [snap EXCEPT ![i].at = "syncRead"]
  /\ UNCHANGED <<store, file>>
  /\ OverlapUnchanged

\* syncToFile of call i: getAllEntriesInternal() reads the store as it is now.
overlapRead(i) ==
  /\ i \in 1..Len(snap)
  /\ snap[i].at = "syncRead"
  /\ snap' = [snap EXCEPT ![i].at = "saveToFile", ![i].read = getAllEntriesInternal(store)]
  /\ UNCHANGED <<store, file>>
  /\ OverlapUnchanged

\* saveToFile of call i: the file is replaced by what this call read, or the
\* write fails and the failure is swallowed.
overlapSave(i) ==
  /\ i \in 1..Len(snap)
  /\ snap[i].at = "saveToFile"
  /\ \/ /\ file' = saveToFileWrites(file, snap[i].read)
        /\ snap' = [snap EXCEPT ![i].at = "done"]
     \/ /\ file' = FileAfterFailedSave(file, TRUE)
        /\ snap' = [snap EXCEPT ![i].at = "writeError"]
  /\ UNCHANGED store
  /\ OverlapUnchanged

OverlapNext ==
  \/ \E e \in EntryPool : overlapAdd(e)
  \/ \E e \in EntryPool : overlapUpdate(e)
  \/ \E id \in Ids : overlapDelete(id)
  \/ \E i \in 1..MaxOverlap : overlapGetHandle(i)
  \/ \E i \in 1..MaxOverlap : overlapRead(i)
  \/ \E i \in 1..MaxOverlap : overlapSave(i)

OverlapSpec == OverlapInit /\ [][OverlapNext]_vars

\* C29: when local mutations overlap, then once all of them have completed
\* and every one of their syncs has written the file, the mirror file holds
\* exactly the entries of the Local Store: no sync that read an older state
\* writes after a sync that read a newer one.
C29_OverlappingSyncs ==
  (/\ Len(snap) > 0
   /\ \A i \in 1..Len(snap) : snap[i].at = "done")
  => file = MirrorDocument(getAllEntriesInternal(store))

\* ------------------------------------------------------------------
\* Settings page: handleSyncFromFile
\* ------------------------------------------------------------------

\* What the mirror file can be when the user asks to load it: missing, not
\* readable as JSON, or a document saveToFile wrote.
FlowFiles ==
  {NoFile, NotJsonFile} \cup
  {MirrorDocument(b) : b \in {c \in Batches : \A i \in 1..Len(c) : ValidKey(c[i])}}

FlowInit ==
  /\ store \in SUBSET {A1v1, A2v1}
  /\ file \in FlowFiles
  /\ handleStored = TRUE
  /\ permission \in {"granted", "prompt"}
  /\ rows = {}
  /\ blobs = {}
  /\ configured = FALSE
  /\ auth = NoSession
  /\ bucketReliable = FALSE
  /\ pc = "idle"
  /\ call = NoCall
  /\ result = NoResult
  /\ sync = NoSync
  /\ snap = <<>>
  /\ txn = NoTxn

\* handleSyncFromFile up to line 145: loadFromFile(); null shows the error
\* message and returns, an exception is caught and shown.
handleSyncFromFile ==
  /\ CanInvoke
  /\ \E answer \in Answers, readOk \in BOOLEAN :
       LET h == getDirectoryHandle(handleStored, permission, answer)
           loaded == CASE h.handle = "throw" -> Rejected("SecurityError")
                       [] h.handle = "null" -> ReturnedNull
                       [] OTHER -> loadFromFileResult(file, readOk)
       IN /\ permission' = h.permission
          /\ Begin("handleSyncFromFile", loaded.value, Undef, NoOptions, "local")
          /\ IF loaded.state = "fulfilled"
             THEN pc' = "clear" /\ result' = Pending
             ELSE pc' = "done" /\ result' = loaded
  /\ UNCHANGED <<store, file, handleStored, remoteVars>>

\* Lines 147-150: clearAllEntries(), then importEntries(entries) when there
\* are entries; importEntries opens its transaction.
syncFromFileClear ==
  /\ pc = "clear"
  /\ \/ /\ store' = {}
        /\ IF Len(call.entries) > 0
           THEN /\ pc' = "tx"
                /\ txn' = [next |-> 1, puts |-> <<>>]
                /\ UNCHANGED result
           ELSE /\ pc' = "done"
                /\ result' = Fulfilled(<<>>)
                /\ UNCHANGED txn
     \/ /\ pc' = "done"
        /\ result' = Rejected("ClearError")
        /\ UNCHANGED <<store, txn>>
  /\ UNCHANGED <<file, handleStored, permission, remoteVars, call, sync, snap>>

FlowNext ==
  \/ handleSyncFromFile
  \/ syncFromFileClear
  \/ TxPut
  \/ TxDone
  \/ SyncGetHandle
  \/ SyncRead
  \/ SaveGetHandle
  \/ SaveWrite
  \/ Return

FlowSpec == FlowInit /\ [][FlowNext]_vars

\* The step that ends the flow.
FlowEnds == pc # "done" /\ pc' = "done" /\ call'.op = "handleSyncFromFile"

\* C30: 'load from file' is all-or-nothing for the Local Store.  Loading
\* does not touch the store; when the flow ends because the file could not
\* be loaded or the store could not be cleared, the store is as it was; when
\* it ends in any other way, the store holds exactly the entries loaded from
\* the file.
C30_LoadAllOrNothing ==
  [][/\ (pc = "idle" /\ pc' # "idle") => store' = store
     /\ FlowEnds
          => IF pc \in {"idle", "clear"} /\ result'.state # "fulfilled"
             THEN store' = store
             ELSE store' = Range(call'.entries)]_vars

====
